---------------------------- MODULE Spec2Model ----------------------------
(***************************************************************************)
(* Model of src/src/pages/Shop.tsx: the Shop page, which reads the product *)
(* catalogue through useQuery(['products']) (staleTime 5 min, retry 1,     *)
(* retryDelay 1000 ms), reports query errors through a toast effect, and   *)
(* derives the available sizes and the filtered product list with useMemo. *)
(*                                                                         *)
(* The query cache entry behind the 'products' key plays the part of the   *)
(* catalogue store: mounting the page is load(), the Retry button is       *)
(* refetch().  Strings are sequences of one-character strings so that      *)
(* toLowerCase, includes and the default sort are computed, not assumed.   *)
(***************************************************************************)
EXTENDS Integers, Sequences, FiniteSets, TLC

(***************************************************************************)
(* Bounds of the model.                                                    *)
(***************************************************************************)
MaxProducts == 3      \* longest product list drawn for the derivations
MaxTicks    == 3      \* clock advances in one behaviour
MaxCount    == 2      \* the per-cycle toast count saturates here

(***************************************************************************)
(* Program constants (milliseconds).                                       *)
(***************************************************************************)
StaleTime  == 5 * 60 * 1000
RetryCount == 1
RetryDelay == 1000

(***************************************************************************)
(* Strings.                                                                *)
(***************************************************************************)
UpperCase == <<"A","B","C","D","E","F","G","H","I","J","K","L","M",
               "N","O","P","Q","R","S","T","U","V","W","X","Y","Z">>
LowerCase == <<"a","b","c","d","e","f","g","h","i","j","k","l","m",
               "n","o","p","q","r","s","t","u","v","w","x","y","z">>
Digits    == <<"0","1","2","3","4","5","6","7","8","9">>

Range(seq) == { seq[i] : i \in DOMAIN seq }

IndexIn(seq, c) == CHOOSE i \in DOMAIN seq : seq[i] = c

\* UTF-16 code unit of a character (digits, then upper case, then lower case)
CharCode(c) ==
    IF c \in Range(Digits) THEN 47 + IndexIn(Digits, c)
    ELSE IF c \in Range(UpperCase) THEN 64 + IndexIn(UpperCase, c)
    ELSE IF c \in Range(LowerCase) THEN 96 + IndexIn(LowerCase, c)
    ELSE 32

toLowerCaseChar(c) ==
    IF c \in Range(UpperCase) THEN LowerCase[IndexIn(UpperCase, c)] ELSE c

\* String.prototype.toLowerCase
toLowerCase(str) == [ i \in DOMAIN str |-> toLowerCaseChar(str[i]) ]

\* String.prototype.includes: needle occurs at some offset (the empty needle
\* occurs at offset 0 of every string)
includes(str, needle) ==
    \E k \in 0 .. (Len(str) - Len(needle)) :
        SubSeq(str, k + 1, k + Len(needle)) = needle

\* the order of the default Array.prototype.sort comparator: code units,
\* a proper prefix first
RECURSIVE StrLess(_, _)
StrLess(a, b) ==
    IF b = <<>> THEN FALSE
    ELSE IF a = <<>> THEN TRUE
    ELSE IF CharCode(Head(a)) # CharCode(Head(b))
         THEN CharCode(Head(a)) < CharCode(Head(b))
    ELSE StrLess(Tail(a), Tail(b))

RECURSIVE InsertSorted(_, _)
InsertSorted(sorted, x) ==
    IF sorted = <<>> THEN <<x>>
    ELSE IF StrLess(x, Head(sorted)) THEN <<x>> \o sorted
    ELSE <<Head(sorted)>> \o InsertSorted(Tail(sorted), x)

sortOmitted(arr) == arr

\* Array.prototype.sort() without a comparator
RECURSIVE sort(_)
sort(arr) ==
    IF arr = <<>> THEN <<>>
    ELSE InsertSorted(sort(Tail(arr)), Head(arr))

\* Set.prototype.add on an insertion-ordered Set
SetAdd(set, x) == IF x \in Range(set) THEN set ELSE Append(set, x)

(***************************************************************************)
(* Values.                                                                 *)
(***************************************************************************)
Str1(a)       == <<a>>
Str2(a, b)    == <<a, b>>
Str3(a, b, c) == <<a, b, c>>

NoBrand     == [present |-> FALSE, value |-> <<>>]
Brand(str)  == [present |-> TRUE, value |-> str]

\* `products` as the component sees it: undefined until a fetch succeeded
Undefined   == [defined |-> FALSE, value |-> <<>>]
Some(list)  == [defined |-> TRUE, value |-> list]

All == Str3("a", "l", "l")       \* the 'all' sentinel of selectedSize
SizeL  == Str1("L")
SizeM  == Str1("M")
SizeS  == Str1("S")
SizeXL == Str2("X", "L")
Size10 == Str2("1", "0")
Size9  == Str1("9")

Stock(size, count) == [size |-> size, count |-> count]

\* The product universe: the scenario product of the specification and
\* products that differ from it in one respect each.
Catalog ==
    << [sku |-> 1, item_name |-> Str3("R","e","d"), color_code |-> Str3("R","E","D"),
        brand |-> NoBrand,
        sizes |-> <<Stock(SizeM, 2), Stock(SizeL, 0)>>],
       [sku |-> 2, item_name |-> Str3("C","a","p"), color_code |-> Str2("B","L"),
        brand |-> Brand(Str3("r","E","d")),
        sizes |-> <<Stock(SizeXL, 1), Stock(SizeL, 1)>>],
       [sku |-> 3, item_name |-> Str3("H","a","t"), color_code |-> Str3("r","e","d"),
        brand |-> Brand(<<>>),
        sizes |-> <<Stock(SizeM, 0), Stock(SizeM, 3), Stock(Size9, 1)>>],
       [sku |-> 4, item_name |-> Str3("B","a","g"), color_code |-> Str3("T","A","N"),
        brand |-> Brand(Str2("e","D")),
        sizes |-> <<>>],
       [sku |-> 5, item_name |-> Str3("b","e","d"), color_code |-> Str1("x"),
        brand |-> NoBrand,
        sizes |-> <<Stock(SizeS, 0), Stock(Size10, 2), Stock(SizeL, 0)>>] >>

Skus == DOMAIN Catalog

SearchTerms == { <<>>, Str3("r","e","d"), Str2("E","D"), Str1("x"),
                 Str3("b","l","u") }

SizeChoices == { All, SizeL, SizeM, SizeS, SizeXL, Size10, Size9 }

RECURSIVE SkuSeqs(_)
SkuSeqs(n) ==
    IF n = 0 THEN { <<>> }
    ELSE SkuSeqs(n - 1) \cup
         { Append(s, k) : s \in { t \in SkuSeqs(n - 1) : Len(t) = n - 1 },
                          k \in Skus }

\* product lists with unique sku, in any order
ProductLists ==
    { [ i \in DOMAIN s |-> Catalog[s[i]] ] :
        s \in { t \in SkuSeqs(MaxProducts) :
                  \A i, j \in DOMAIN t : i # j => t[i] # t[j] } }

(***************************************************************************)
(* The derivations of the component (useMemo bodies).                      *)
(***************************************************************************)
inStockAlways(sizeObj) == TRUE

\* line 41: only sizes in stock are collected
inStock(sizeObj) == sizeObj.count > 0

RECURSIVE forEachSizeObj(_, _)
forEachSizeObj(sizeObjs, sizes) ==
    IF sizeObjs = <<>> THEN sizes
    ELSE forEachSizeObj(Tail(sizeObjs),
                        IF inStock(Head(sizeObjs))
                        THEN SetAdd(sizes, Head(sizeObjs).size)
                        ELSE sizes)

RECURSIVE forEachProduct(_, _)
forEachProduct(products, sizes) ==
    IF products = <<>> THEN sizes
    ELSE forEachProduct(Tail(products),
                        forEachSizeObj(Head(products).sizes, sizes))

availableSizes(products) ==
    IF ~products.defined THEN <<>>
    ELSE sort(forEachProduct(products.value, <<>>))

\* a string is truthy unless it is empty; an absent brand is undefined
truthy(brand) == brand.present /\ brand.value # <<>>

matchesSearch(product, searchTerm) ==
    \/ includes(toLowerCase(product.item_name), toLowerCase(searchTerm))
    \/ includes(toLowerCase(product.color_code), toLowerCase(searchTerm))
    \/ /\ truthy(product.brand)
       /\ includes(toLowerCase(product.brand.value), toLowerCase(searchTerm))

matchesSizeAnyCount(product, selectedSize) ==
    \/ selectedSize = All
    \/ \E i \in DOMAIN product.sizes : product.sizes[i].size = selectedSize

matchesSize(product, selectedSize) ==
    \/ selectedSize = All
    \/ \E i \in DOMAIN product.sizes :
          /\ product.sizes[i].size = selectedSize
          /\ product.sizes[i].count > 0

RECURSIVE filterReversed(_, _, _)
filterReversed(products, searchTerm, selectedSize) ==
    IF products = <<>> THEN <<>>
    ELSE filterReversed(Tail(products), searchTerm, selectedSize) \o
         (IF matchesSearch(Head(products), searchTerm)
             /\ matchesSize(Head(products), selectedSize)
          THEN <<Head(products)>> ELSE <<>>)

\* Array.prototype.filter with the predicate of lines 54-67
RECURSIVE filter(_, _, _)
filter(products, searchTerm, selectedSize) ==
    IF products = <<>> THEN <<>>
    ELSE (IF matchesSearch(Head(products), searchTerm)
             /\ matchesSize(Head(products), selectedSize)
          THEN <<Head(products)>> ELSE <<>>)
         \o filter(Tail(products), searchTerm, selectedSize)

filteredProducts(products, searchTerm, selectedSize) ==
    IF ~products.defined THEN <<>>
    ELSE filter(products.value, searchTerm, selectedSize)

(***************************************************************************)
(* State.                                                                  *)
(***************************************************************************)
VARIABLES
    data,           \* query state: the cached product list, or Undefined
    dataUpdatedAt,  \* query state: time of the last successful fetch, 0 if none
    error,          \* query state: the error of the last failed fetch cycle
    status,         \* query state: "pending" | "success" | "error"
    fetchStatus,    \* query state: "idle" | "fetching"
    retryer,        \* the running fetch cycle: phase, failureCount, ...
    now,            \* Date.now()
    ticks,          \* clock advances so far
    mounted,        \* the Shop component is mounted (observes the query)
    searchTerm,     \* useState('')
    selectedSize,   \* useState('all')
    showFilters,    \* useState(false)
    effectDeps,     \* [isError, error] of the last run of the toast effect
    sizesMemo,      \* useMemo cell of availableSizes: deps and value
    filteredMemo,   \* useMemo cell of filteredProducts: deps and value
    toastLog,       \* toast.error calls made by the last step
    notified,       \* the error passed to the last toast.error call
    invoked,        \* invocations of the query function started by the last step
    cycle,          \* bookkeeping of the current (or last) fetch cycle
    op              \* the last step, if it was load() or refetch()

queryVars     == <<data, dataUpdatedAt, error, status, fetchStatus>>
clockVars     == <<now, ticks>>
filterVars    == <<searchTerm, selectedSize, showFilters>>
renderVars    == <<effectDeps, sizesMemo, filteredMemo, toastLog, notified>>
vars == <<data, dataUpdatedAt, error, status, fetchStatus, retryer,
          now, ticks, mounted, searchTerm, selectedSize, showFilters,
          effectDeps, sizesMemo, filteredMemo, toastLog, notified, invoked,
          cycle, op>>

ErrorMessages == { "Network", "Parse" }
ErrorIds      == 1 .. 3

NoError == [id |-> 0, message |-> "none"]
Errors  == [id : ErrorIds, message : ErrorMessages]

NoRetryer == [phase |-> "none", failureCount |-> 0, isRetryCancelled |-> FALSE,
              dueAt |-> 0, error |-> NoError]

\* what the fetch boundary may return
FetchResults == { <<>>, <<Catalog[1]>>, <<Catalog[3], Catalog[1]>> }

ShopSearchTerms == { <<>>, Str3("r","e","d") }

(***************************************************************************)
(* What the component reads from useQuery.                                 *)
(***************************************************************************)
isError   == status = "error"
isLoading == status = "pending" /\ fetchStatus = "fetching"

\* the names of the store's states in terms of the query state
Idle    == status = "pending" /\ fetchStatus = "idle"
Loading == status = "pending" /\ fetchStatus = "fetching"
Success == status = "success"
Error   == status = "error"

age == now - dataUpdatedAt

isStaleStrict == dataUpdatedAt = 0 \/ age > StaleTime

\* staleTime: no data yet, or the data is at least StaleTime old
isStale == dataUpdatedAt = 0 \/ age >= StaleTime

\* refetchOnMount and retryOnMount are left at their defaults
shouldFetchOnMount == dataUpdatedAt = 0 \/ isStale

\* a new Error object is identical to none the component has seen
FreshError(message) ==
    [id |-> CHOOSE i \in ErrorIds : i \notin { error.id, notified.id },
     message |-> message]

instanceofError(e) == e # NoError

ToastText(e) == <<"Shop error: ", e.message>>

NoCycle == [calls |-> 0, toasts |-> 0, startData |-> Undefined,
            startUpdatedAt |-> 0, enteredError |-> FALSE, lastResult |-> <<>>]

(***************************************************************************)
(* Rendering: every state change re-renders the mounted component, which   *)
(* re-evaluates the two useMemo cells and then runs the toast effect when  *)
(* [isError, error] differs from the previous run (always on mount).       *)
(***************************************************************************)
NoDeps  == <<FALSE, NoError>>
NoSizesMemo    == [deps |-> Undefined, value |-> <<>>]
NoFilteredMemo == [deps |-> <<Undefined, <<>>, All>>, value |-> <<>>]

\* useEffect(..., [isError, error]): runs after the first render and after
\* every render in which a dependency changed
effectRuns(firstRender, deps) == firstRender \/ deps # effectDeps

RenderSizeNotInDeps ==
    IF ~mounted'
    THEN /\ effectDeps' = NoDeps
         /\ sizesMemo' = NoSizesMemo
         /\ filteredMemo' = NoFilteredMemo
         /\ toastLog' = <<>>
         /\ notified' = notified
    ELSE LET deps  == <<status' = "error", error'>>
             fdeps == <<data', searchTerm', selectedSize'>>
         IN /\ sizesMemo' =
                  IF mounted /\ sizesMemo.deps = data' THEN sizesMemo
                  ELSE [deps |-> data', value |-> availableSizes(data')]
            /\ filteredMemo' =
                  IF mounted /\ filteredMemo.deps[1] = fdeps[1]
                             /\ filteredMemo.deps[2] = fdeps[2]
                  THEN filteredMemo
                  ELSE [deps |-> fdeps,
                        value |-> filteredProducts(data', searchTerm', selectedSize')]
            /\ effectDeps' = deps
            /\ toastLog' =
                  IF effectRuns(~mounted, deps) /\ deps[1] /\ instanceofError(deps[2])
                  THEN <<ToastText(deps[2])>>
                  ELSE <<>>
            /\ notified' =
                  IF effectRuns(~mounted, deps) /\ deps[1] /\ instanceofError(deps[2])
                  THEN deps[2]
                  ELSE notified

Render ==
    IF ~mounted'
    THEN /\ effectDeps' = NoDeps
         /\ sizesMemo' = NoSizesMemo
         /\ filteredMemo' = NoFilteredMemo
         /\ toastLog' = <<>>
         /\ notified' = notified
    ELSE LET deps  == <<status' = "error", error'>>
             fdeps == <<data', searchTerm', selectedSize'>>
         IN /\ sizesMemo' =
                  IF mounted /\ sizesMemo.deps = data' THEN sizesMemo
                  ELSE [deps |-> data', value |-> availableSizes(data')]
            /\ filteredMemo' =
                  IF mounted /\ filteredMemo.deps = fdeps THEN filteredMemo
                  ELSE [deps |-> fdeps,
                        value |-> filteredProducts(data', searchTerm', selectedSize')]
            /\ effectDeps' = deps
            /\ toastLog' =
                  IF effectRuns(~mounted, deps) /\ deps[1] /\ instanceofError(deps[2])
                  THEN <<ToastText(deps[2])>>
                  ELSE <<>>
            /\ notified' =
                  IF effectRuns(~mounted, deps) /\ deps[1] /\ instanceofError(deps[2])
                  THEN deps[2]
                  ELSE notified

productsAreaEmptyIsError ==
    IF isLoading THEN "LoadingSpinner"
    ELSE IF isError \/ Len(filteredMemo.value) = 0 THEN "Error loading products"
    ELSE "grid"

\* lines 151-182: what the products area of the mounted page shows
productsArea ==
    IF isLoading THEN "LoadingSpinner"
    ELSE IF isError THEN "Error loading products"
    ELSE IF Len(filteredMemo.value) = 0 THEN "No products found"
    ELSE "grid"

\* lines 172-181: the products rendered as ProductCard, in order
productCards == IF productsArea = "grid" THEN filteredMemo.value ELSE <<>>

(***************************************************************************)
(* Bookkeeping of a fetch cycle (history only; nothing reads it back).     *)
(***************************************************************************)
Saturate(n) == IF n > MaxCount THEN MaxCount ELSE n

Track(start) ==
    cycle' =
      IF start
      THEN [calls |-> 1, toasts |-> 0,
            startData |-> data, startUpdatedAt |-> dataUpdatedAt,
            enteredError |-> FALSE,
            lastResult |-> cycle.lastResult]
      ELSE IF fetchStatus = "fetching"
      THEN [cycle EXCEPT
              !.calls = @ + invoked',
              !.toasts = Saturate(@ + Len(toastLog')),
              !.enteredError = @ \/ (status # "error" /\ status' = "error")]
      ELSE cycle

(***************************************************************************)
(* The query: fetch, retry, success, error.  The behaviour is that of      *)
(* useQuery from @tanstack/react-query (line 3) under the options of lines *)
(* 21-25, every other option at its default:                               *)
(*  - a fetch sets the status to "pending" only when no data is cached;    *)
(*  - a fetch requested on mount while one runs attaches to the running    *)
(*    one; refetch() cancels a running fetch over cached data and starts   *)
(*    anew (cancelRefetch);                                                *)
(*  - when the last observer unmounts the running invocation goes on but   *)
(*    its retry is cancelled; a later attach re-enables the retry;         *)
(*  - the query function does not read the abort signal, the window stays  *)
(*    focused and online, and the cache entry lives for the session.       *)
(***************************************************************************)
statusOnFetchAlwaysPending == "pending"

\* the 'fetch' action of the reducer resets the status only when there is no
\* data yet
statusOnFetch == IF dataUpdatedAt = 0 THEN "pending" ELSE status

dataOnErrorCleared == Undefined

\* the 'error' action of the reducer keeps the data (...state)
dataOnError == data

\* Query.fetch on an idle query: the 'fetch' action of the reducer, then the
\* first invocation of the query function
StartFetch ==
    /\ fetchStatus' = "fetching"
    /\ status' = statusOnFetch
    /\ error'  = IF dataUpdatedAt = 0 THEN NoError ELSE error
    /\ UNCHANGED <<data, dataUpdatedAt>>
    /\ retryer' = [phase |-> "attempt", failureCount |-> 0,
                   isRetryCancelled |-> FALSE, dueAt |-> 0, error |-> NoError]
    /\ invoked' = 1

\* Query.fetch while a fetch is running: the caller gets the running promise
AttachFetch ==
    /\ UNCHANGED queryVars
    /\ retryer' = [retryer EXCEPT !.isRetryCancelled = FALSE]
    /\ invoked' = 0

\* useQuery on mount: subscribe, fetch when there is no data or it is stale
Mount ==
    /\ ~mounted
    /\ op' = "mount"
    /\ mounted' = TRUE
    /\ searchTerm' = <<>>
    /\ selectedSize' = All
    /\ showFilters' = FALSE
    /\ IF shouldFetchOnMount
       THEN IF fetchStatus = "idle" THEN StartFetch ELSE AttachFetch
       ELSE UNCHANGED queryVars /\ UNCHANGED retryer /\ invoked' = 0
    /\ UNCHANGED clockVars
    /\ Render
    /\ Track(shouldFetchOnMount /\ fetchStatus = "idle")

UnmountCancelsFetch ==
    /\ mounted
    /\ op' = "none"
    /\ mounted' = FALSE
    /\ searchTerm' = <<>>
    /\ selectedSize' = All
    /\ showFilters' = FALSE
    /\ retryer' = NoRetryer
    /\ fetchStatus' = "idle"
    /\ invoked' = 0
    /\ UNCHANGED <<data, dataUpdatedAt, error, status, clockVars>>
    /\ Render
    /\ Track(FALSE)

\* the component unmounts: a running fetch goes on, its retry is cancelled
Unmount ==
    /\ mounted
    /\ op' = "none"
    /\ mounted' = FALSE
    /\ searchTerm' = <<>>
    /\ selectedSize' = All
    /\ showFilters' = FALSE
    /\ retryer' = IF retryer.phase = "none" THEN retryer
                  ELSE [retryer EXCEPT !.isRetryCancelled = TRUE]
    /\ invoked' = 0
    /\ UNCHANGED <<queryVars, clockVars>>
    /\ Render
    /\ Track(FALSE)

\* the Retry button: refetch(), whose cancelRefetch defaults to true
Refetch ==
    /\ mounted
    /\ op' = "refetch"
    /\ ~isLoading
    /\ isError
    /\ IF fetchStatus = "idle" \/ dataUpdatedAt # 0
       THEN StartFetch
       ELSE AttachFetch
    /\ UNCHANGED <<mounted, filterVars, clockVars>>
    /\ Render
    /\ Track(fetchStatus = "idle" \/ dataUpdatedAt # 0)

dataOnSuccessMerged(result) == Some(data.value \o result)

\* the 'success' action of the reducer replaces the data by the result
dataOnSuccess(result) == Some(result)

AttemptSucceedResetsSize(result) ==
    /\ retryer.phase = "attempt"
    /\ op' = "none"
    /\ data' = dataOnSuccess(result)
    /\ dataUpdatedAt' = now
    /\ error' = NoError
    /\ status' = "success"
    /\ fetchStatus' = "idle"
    /\ retryer' = NoRetryer
    /\ invoked' = 0
    /\ selectedSize' = All
    /\ UNCHANGED <<clockVars, mounted, searchTerm, showFilters>>
    /\ Render
    /\ cycle' = [cycle EXCEPT !.toasts = Saturate(@ + Len(toastLog')),
                              !.lastResult = result]

\* the 'success' action of the reducer
AttemptSucceed(result) ==
    /\ retryer.phase = "attempt"
    /\ op' = "none"
    /\ data' = dataOnSuccess(result)
    /\ dataUpdatedAt' = now
    /\ error' = NoError
    /\ status' = "success"
    /\ fetchStatus' = "idle"
    /\ retryer' = NoRetryer
    /\ invoked' = 0
    /\ UNCHANGED <<clockVars, mounted, filterVars>>
    /\ Render
    /\ cycle' = [cycle EXCEPT !.toasts = Saturate(@ + Len(toastLog')),
                              !.lastResult = result]

shouldRetryNever == FALSE

\* retry: 1
shouldRetry == retryer.failureCount < RetryCount

\* the invocation rejects: retry after the delay, or give up (the 'error'
\* action of the reducer)
AttemptFail(message) ==
    /\ retryer.phase = "attempt"
    /\ op' = "none"
    /\ IF retryer.isRetryCancelled \/ ~shouldRetry
       THEN /\ error' = FreshError(message)
            /\ status' = "error"
            /\ fetchStatus' = "idle"
            /\ retryer' = NoRetryer
            /\ data' = dataOnError
            /\ UNCHANGED dataUpdatedAt
       ELSE /\ retryer' = [retryer EXCEPT !.phase = "sleep",
                                          !.failureCount = @ + 1,
                                          !.dueAt = now + RetryDelay,
                                          !.error = FreshError(message)]
            /\ UNCHANGED queryVars
    /\ invoked' = 0
    /\ UNCHANGED <<clockVars, mounted, filterVars>>
    /\ Render
    /\ Track(FALSE)

\* the retry delay has passed: invoke the query function again, unless the
\* retry was cancelled meanwhile
RetryTimer ==
    /\ retryer.phase = "sleep"
    /\ op' = "none"
    /\ now >= retryer.dueAt
    /\ IF retryer.isRetryCancelled
       THEN /\ error' = retryer.error
            /\ status' = "error"
            /\ fetchStatus' = "idle"
            /\ retryer' = NoRetryer
            /\ invoked' = 0
            /\ data' = dataOnError
            /\ UNCHANGED dataUpdatedAt
       ELSE /\ retryer' = [retryer EXCEPT !.phase = "attempt", !.error = NoError]
            /\ invoked' = 1
            /\ UNCHANGED queryVars
    /\ UNCHANGED <<clockVars, mounted, filterVars>>
    /\ Render
    /\ Track(FALSE)

TickSteps == { RetryDelay, StaleTime - RetryDelay }

\* the clock is read only for the retry delay and the staleness of the data
TimeMatters == retryer.phase = "sleep" \/ (dataUpdatedAt # 0 /\ ~isStale)

Tick(d) ==
    /\ ticks < MaxTicks
    /\ op' = "none"
    /\ TimeMatters
    /\ now' = now + d
    /\ ticks' = ticks + 1
    /\ invoked' = 0
    /\ toastLog' = <<>>
    /\ UNCHANGED <<queryVars, retryer, mounted, filterVars,
                   effectDeps, sizesMemo, filteredMemo, notified, cycle>>

(***************************************************************************)
(* The filter controls.                                                    *)
(***************************************************************************)
\* line 99: the search box
SetSearchTerm(value) ==
    /\ mounted
    /\ op' = "none"
    /\ searchTerm' = value
    /\ invoked' = 0
    /\ UNCHANGED <<queryVars, retryer, clockVars, mounted,
                   selectedSize, showFilters, cycle>>
    /\ Render

\* lines 121 and 131: "All Sizes" and one button per available size
SetSelectedSize(size) ==
    /\ mounted
    /\ op' = "none"
    /\ showFilters
    /\ size = All \/ size \in Range(sizesMemo.value)
    /\ selectedSize' = size
    /\ invoked' = 0
    /\ UNCHANGED <<queryVars, retryer, clockVars, mounted,
                   searchTerm, showFilters, cycle>>
    /\ Render

\* line 106
ToggleFilters ==
    /\ mounted
    /\ op' = "none"
    /\ showFilters' = ~showFilters
    /\ invoked' = 0
    /\ UNCHANGED <<queryVars, retryer, clockVars, mounted,
                   searchTerm, selectedSize, cycle>>
    /\ Render

(***************************************************************************)
(* Specifications.                                                         *)
(***************************************************************************)
Init ==
    /\ data = Undefined
    /\ dataUpdatedAt = 0
    /\ error = NoError
    /\ status = "pending"
    /\ fetchStatus = "idle"
    /\ retryer = NoRetryer
    /\ now = 1
    /\ ticks = 0
    /\ mounted = FALSE
    /\ searchTerm = <<>>
    /\ selectedSize = All
    /\ showFilters = FALSE
    /\ effectDeps = NoDeps
    /\ sizesMemo = NoSizesMemo
    /\ filteredMemo = NoFilteredMemo
    /\ toastLog = <<>>
    /\ notified = NoError
    /\ invoked = 0
    /\ cycle = NoCycle
    /\ op = "none"

Next ==
    \/ Mount
    \/ Unmount
    \/ Refetch
    \/ \E result \in FetchResults : AttemptSucceed(result)
    \/ \E message \in ErrorMessages : AttemptFail(message)
    \/ RetryTimer
    \/ \E d \in TickSteps : Tick(d)
    \/ \E value \in ShopSearchTerms : SetSearchTerm(value)
    \/ \E size \in SizeChoices : SetSelectedSize(size)
    \/ ToggleFilters

Spec == Init /\ [][Next]_vars

\* the derivations on their own: any product list, search term and size
FilterInit ==
    /\ \E list \in ProductLists : data = Some(list)
    /\ dataUpdatedAt = 1
    /\ error = NoError
    /\ status = "success"
    /\ fetchStatus = "idle"
    /\ retryer = NoRetryer
    /\ now = 1
    /\ ticks = 0
    /\ mounted = TRUE
    /\ searchTerm \in SearchTerms
    /\ selectedSize \in SizeChoices
    /\ showFilters \in BOOLEAN
    /\ effectDeps = NoDeps
    /\ sizesMemo = [deps |-> data, value |-> availableSizes(data)]
    /\ filteredMemo = [deps |-> <<data, searchTerm, selectedSize>>,
                       value |-> filteredProducts(data, searchTerm, selectedSize)]
    /\ toastLog = <<>>
    /\ notified = NoError
    /\ invoked = 0
    /\ cycle = NoCycle
    /\ op = "none"

FilterNext ==
    \/ \E value \in SearchTerms : SetSearchTerm(value)
    \/ \E size \in SizeChoices : SetSelectedSize(size)
    \/ ToggleFilters

FilterSpec == FilterInit /\ [][FilterNext]_vars

(***************************************************************************)
(* Properties of the store.                                                *)
(***************************************************************************)

\* C1: a load() or refetch() that arrives while a fetch is in flight starts
\* no new invocation of the query function and leaves the running cycle as
\* it is, so that at most one fetch is in flight.
C1_NoFetchWhileInFlight ==
    [][ (op' \in {"mount", "refetch"} /\ fetchStatus = "fetching")
          => /\ invoked' = 0
             /\ retryer'.phase = retryer.phase
             /\ retryer'.failureCount = retryer.failureCount ]_vars

\* C2: a load() while the data is younger than StaleTime starts no fetch; a
\* load() once the data is StaleTime old or older starts one.
C2_LoadHonoursStaleTime ==
    [][ op' = "mount" =>
          /\ (dataUpdatedAt # 0 /\ now - dataUpdatedAt < 300000)
                => (invoked' = 0 /\ fetchStatus' = fetchStatus
                      /\ retryer' = retryer)
          /\ (dataUpdatedAt # 0 /\ now - dataUpdatedAt >= 300000
                /\ fetchStatus = "idle")
                => (invoked' = 1 /\ fetchStatus' = "fetching") ]_vars

\* a second load() inside the window, one clock step short of the threshold
C2_Witness ==
    /\ op = "mount"
    /\ dataUpdatedAt # 0
    /\ now - dataUpdatedAt = 299000
    /\ invoked = 0
    /\ fetchStatus = "idle"

\* C3: a fetch cycle whose first attempt and retry both failed has ended in
\* Error after two invocations with exactly one notifier call.
C3_TwoFailuresOneNotification ==
    (fetchStatus = "idle" /\ status = "error" /\ cycle.calls = 2)
        => cycle.toasts = 1

\* C4: a fetch cycle whose first attempt failed and whose retry succeeded has
\* ended in Success with the data of the second attempt, without the status
\* having been set to Error and without a notifier call during the cycle.
C4_RetrySucceedsQuietly ==
    (fetchStatus = "idle" /\ status = "success" /\ cycle.calls = 2)
        => /\ data = Some(cycle.lastResult)
           /\ ~cycle.enteredError
           /\ cycle.toasts = 0

\* C5: when a fetch cycle has ended in Error the cached product list and the
\* time of the last successful fetch are those of before the cycle.
C5_FailureKeepsSnapshot ==
    (fetchStatus = "idle" /\ status = "error")
        => /\ data = cycle.startData
           /\ dataUpdatedAt = cycle.startUpdatedAt

\* a refresh failed over a cached, non-empty product list
C5_Witness ==
    /\ fetchStatus = "idle"
    /\ status = "error"
    /\ data.defined
    /\ data.value # <<>>
    /\ cycle.calls = 2

\* C6: the notifier is called once per transition into Error: observing a
\* status that already is Error, with the error the notifier was last called
\* with, does not call it again.
C6_NotifyOncePerError ==
    [][ toastLog' # <<>> => error' # notified ]_vars

\* C7 (as stated): every fetch started from Success or Error puts the status
\* into Loading.
C7_FetchEntersLoading ==
    [][ (fetchStatus = "idle" /\ fetchStatus' = "fetching"
           /\ status \in {"success", "error"})
          => (status' = "pending") ]_vars

\* C7 (amended): Idle is initial and never re-entered; Loading is entered only
\* when no data is cached, from Idle or Error; with data cached a fetch leaves
\* the status as it is while it runs; Success and Error are entered only by
\* the end of a running fetch.
C7_StateMachine ==
    [][ /\ (~Idle => ~Idle')
        /\ (~Loading /\ Loading') => (dataUpdatedAt = 0 /\ (Idle \/ Error))
        /\ (fetchStatus = "idle" /\ fetchStatus' = "fetching")
              => IF dataUpdatedAt = 0 THEN Loading' ELSE status' = status
        /\ (~Success /\ Success') => (fetchStatus = "fetching" /\ fetchStatus' = "idle")
        /\ (~Error /\ Error') => (fetchStatus = "fetching" /\ fetchStatus' = "idle")
      ]_vars

\* a refresh runs over cached data and the status still is Success
C7_Witness ==
    /\ fetchStatus = "fetching"
    /\ status = "success"
    /\ data.defined

(***************************************************************************)
(* Properties of the derivations.                                          *)
(***************************************************************************)
SameLetter(a, b) ==
    \/ a = b
    \/ \E i \in DOMAIN UpperCase : {a, b} = {UpperCase[i], LowerCase[i]}

ContainsIgnoringCase(str, needle) ==
    \E k \in 0 .. (Len(str) - Len(needle)) :
        \A i \in 1 .. Len(needle) : SameLetter(str[k + i], needle[i])

Keeps(product, term, size) ==
    /\ \/ term = <<>>
       \/ ContainsIgnoringCase(product.item_name, term)
       \/ ContainsIgnoringCase(product.color_code, term)
       \/ product.brand.present /\ ContainsIgnoringCase(product.brand.value, term)
    /\ \/ size = All
       \/ \E entry \in Range(product.sizes) : entry.size = size /\ entry.count > 0

\* C8: the filtered list holds a product of the list if and only if the
\* search term is empty or contained, ignoring case, in its name, colour or
\* present brand, and the selected size is 'all' or a size it has in stock.
C8_KeepsIff ==
    (mounted /\ data.defined) =>
        \A i \in DOMAIN data.value :
            (data.value[i] \in Range(filteredMemo.value))
                <=> Keeps(data.value[i], searchTerm, selectedSize)

\* the scenario of the specification: "red" matches, L is out of stock
C8_Witness ==
    /\ data = Some(<<Catalog[1]>>)
    /\ searchTerm = Str3("r","e","d")
    /\ selectedSize = SizeL
    /\ filteredMemo.value = <<>>

\* C9: the available sizes are exactly the labels in stock in some product,
\* in strictly ascending code-unit order (hence free of duplicates).
C9_AvailableSizes ==
    (mounted /\ data.defined) =>
        LET out == sizesMemo.value
        IN /\ Range(out) =
                { entry.size : entry \in
                    { e \in UNION { Range(data.value[i].sizes) : i \in DOMAIN data.value } :
                        e.count > 0 } }
           /\ \A i, j \in DOMAIN out : i < j => StrLess(out[i], out[j])

\* sizes met in the order 10, M, 9, with S and L out of stock everywhere
C9_Witness ==
    /\ data = Some(<<Catalog[5], Catalog[3]>>)
    /\ sizesMemo.value = <<Size10, Size9, SizeM>>

\* C10: the filtered list is a subsequence of the product list: its elements
\* are elements of the list, in the order of the list, none twice.
C10_Subsequence ==
    (mounted /\ data.defined) =>
        LET out == filteredMemo.value
            P   == data.value
        IN \E f \in [DOMAIN out -> DOMAIN P] :
              /\ \A i, j \in DOMAIN out : i < j => f[i] < f[j]
              /\ \A i \in DOMAIN out : out[i] = P[f[i]]

\* two products survive, one between or around them is dropped
C10_Witness ==
    /\ data.defined
    /\ Len(data.value) = 3
    /\ Len(filteredMemo.value) = 2
    /\ filteredMemo.value[1] = data.value[1]
    /\ filteredMemo.value[2] = data.value[3]

\* C11: filtering the filtered list again with the same search term and size
\* yields the filtered list unchanged.
C11_Idempotent ==
    (mounted /\ data.defined) =>
        filteredProducts(Some(filteredMemo.value), searchTerm, selectedSize)
            = filteredMemo.value

\* a search term and a size that keep two of three products
C11_Witness ==
    /\ data.defined
    /\ Len(data.value) = 3
    /\ Len(filteredMemo.value) = 2
    /\ searchTerm # <<>>
    /\ selectedSize # All

(***************************************************************************)
(* Properties of the store and the page together.                          *)
(***************************************************************************)

\* C12: no state is fatal.  Whenever the page shows status Error, with or
\* without cached data, refetch() can be called; a refetch() starts a cycle
\* with its first invocation and the retry unspent; a first failure of a
\* cycle whose retry was not cancelled does not end the cycle; and a fetch
\* that ends without an error ends in Success with the data and the time of
\* the attempt that succeeded.
C12_NoFatalState ==
    /\ [](mounted /\ Error => ENABLED Refetch)
    /\ [][ /\ op' = "refetch"
               => /\ Error
                  /\ fetchStatus' = "fetching"
                  /\ invoked' = 1
                  /\ retryer'.phase = "attempt"
                  /\ retryer'.failureCount = 0
                  /\ ~retryer'.isRetryCancelled
           /\ (retryer.phase = "attempt" /\ retryer.failureCount = 0
                 /\ ~retryer.isRetryCancelled /\ fetchStatus' = "idle")
               => Success'
           /\ (fetchStatus = "fetching" /\ fetchStatus' = "idle" /\ ~Error')
               => /\ Success'
                  /\ data' = Some(cycle'.lastResult)
                  /\ dataUpdatedAt' = now
      ]_vars

\* Retry was pressed on the error panel shown over a cached product list
C12_Witness ==
    /\ op = "refetch"
    /\ status = "error"
    /\ data.defined
    /\ fetchStatus = "fetching"
    /\ retryer.failureCount = 0

\* Retry was pressed on the error panel with nothing cached
C12_WitnessNoData ==
    /\ op = "refetch"
    /\ ~data.defined
    /\ fetchStatus = "fetching"
    /\ retryer.failureCount = 0

\* C13: the cached product list is either absent (nothing fetched yet, time
\* 0) or exactly the result of the most recent successful fetch, with the
\* time of that fetch; list and time change only together, in the step in
\* which a fetch succeeds, and that step sets the status to Success.
C13_WholesaleReplacement ==
    /\ [](IF dataUpdatedAt = 0
          THEN data = Undefined /\ ~Success
          ELSE /\ data = Some(cycle.lastResult)
               /\ data.value \in FetchResults)
    /\ [][ (data' # data \/ dataUpdatedAt' # dataUpdatedAt)
             => /\ retryer.phase = "attempt"
                /\ Success' /\ fetchStatus' = "idle"
                /\ data' = Some(cycle'.lastResult)
                /\ data'.value \in FetchResults
                /\ dataUpdatedAt' = now ]_vars

\* a refresh replaced a list of two products by a list of one
C13_Witness ==
    /\ Success
    /\ cycle.startData = Some(<<Catalog[3], Catalog[1]>>)
    /\ data = Some(<<Catalog[1]>>)
    /\ dataUpdatedAt > cycle.startUpdatedAt

\* refetch() has one caller, the Retry button of the error panel; a product
\* list cached next to the status Error, or under a running fetch, is never
\* younger than StaleTime, so that every fetch refetch() starts is one that
\* load() would start as well
RefetchOnlyOverStaleData ==
    ((Error \/ fetchStatus = "fetching") /\ dataUpdatedAt # 0) => isStale

C16_EmptyResultIsNotAnError ==
    /\ [](/\ availableSizes(Some(<<>>)) = <<>>
          /\ \A s \in SearchTerms, f \in SizeChoices :
                filteredProducts(Some(<<>>), s, f) = <<>>)
    /\ [][ AttemptSucceed(<<>>)
             => /\ Success' /\ ~Error'
                /\ data' = Some(<<>>)
                /\ toastLog' = <<>>
                /\ mounted' => /\ sizesMemo'.value = <<>>
                               /\ filteredMemo'.value = <<>>
                               /\ productsArea' = "No products found"
                               /\ productsArea' # "Error loading products"
      ]_vars

\* the page shows the result of a fetch that returned no product
C16_Witness ==
    /\ mounted
    /\ Success
    /\ fetchStatus = "idle"
    /\ data = Some(<<>>)
    /\ productsArea = "No products found"

\* C17: in every state of the mounted page the memoized available sizes are
\* those of the current product list and the memoized filtered list is that
\* of the current product list, search term and selected size.
C17_MemoIsCurrent ==
    mounted =>
        /\ sizesMemo.value = availableSizes(data)
        /\ filteredMemo.value = filteredProducts(data, searchTerm, selectedSize)

\* a refresh replaced the product list while a search term and a size were
\* set
C17_Witness ==
    /\ mounted
    /\ Success
    /\ searchTerm # <<>>
    /\ selectedSize # All
    /\ cycle.startData.defined
    /\ data # cycle.startData
    /\ filteredMemo.value # filteredProducts(cycle.startData, searchTerm, selectedSize)

\* C18: old data is shown in preference to nothing: while the status is Error
\* next to a non-empty cached product list, the page presents the cached
\* products that pass the current filter.
C18_StaleDataStillShown ==
    (mounted /\ Error /\ data.defined /\ data.value # <<>>)
        => productCards = filteredProducts(data, searchTerm, selectedSize)

\* C19: the two derivations agree on stock: when a size other than 'all' is
\* selected and the filtered list is not empty, the size is one of the
\* available sizes; and for every available size the list filtered by that
\* size and the empty search term is not empty.
C19_DerivationsAgreeOnStock ==
    (mounted /\ data.defined) =>
        /\ (selectedSize # All /\ filteredMemo.value # <<>>)
              => selectedSize \in Range(sizesMemo.value)
        /\ \A f \in Range(sizesMemo.value) :
              filteredProducts(data, <<>>, f) # <<>>

\* the scenario product: "red" and M keep it, M is the only available size
\* although the product lists L as well
C19_Witness ==
    /\ data = Some(<<Catalog[1]>>)
    /\ searchTerm = Str3("r","e","d")
    /\ selectedSize = SizeM
    /\ filteredMemo.value = <<Catalog[1]>>
    /\ sizesMemo.value = <<SizeM>>

\* C20: the filter state and the query are independent: a step of the mounted
\* page that changes the search term or the selected size invokes no query
\* function and leaves the query state and the running fetch as they are;
\* the end of a fetch, in Success or in Error, leaves the search term and the
\* selected size as they are (so that the selected size may be one that the
\* new product list no longer has in stock).
C20_FilterAndStoreIndependent ==
    [][ /\ (mounted /\ mounted'
              /\ (searchTerm' # searchTerm \/ selectedSize' # selectedSize))
            => /\ invoked' = 0
               /\ <<data, dataUpdatedAt, error, status, fetchStatus, retryer>>'
                     = <<data, dataUpdatedAt, error, status, fetchStatus, retryer>>
        /\ (fetchStatus = "fetching" /\ fetchStatus' = "idle")
            => /\ searchTerm' = searchTerm
               /\ selectedSize' = selectedSize
      ]_vars

\* a refresh has replaced the product list and the selected size is not
\* among the sizes now available
C20_Witness ==
    /\ mounted
    /\ Success
    /\ fetchStatus = "idle"
    /\ selectedSize # All
    /\ selectedSize \notin Range(sizesMemo.value)
    /\ sizesMemo.value = availableSizes(data)

=============================================================================
